---- MODULE Spec2Model ----
(***************************************************************************)
(* Congruence::KBFP of libsemigroups (src/cong/kbfp.cc): Knuth-Bendix      *)
(* completion followed by Froidure-Pin enumeration of the quotient, driven *)
(* by one Strategy thread and cancelled cooperatively by a scheduler that  *)
(* sets the shared flag _killed.                                           *)
(*                                                                         *)
(* The member functions of kbfp.cc are split into one action per stretch   *)
(* of code between two reads of the shared flag, so that the scheduler's   *)
(* write can fall between any two of them.  RWS (the RewritingEngine),     *)
(* Semigroup (the EnumerationIndex) and KBFP::is_done() are not part of    *)
(* kbfp.cc; they are modelled from sections 4.1-4.3 of the specification.  *)
(***************************************************************************)
EXTENDS Naturals, Sequences, FiniteSets

VARIABLES
    pres,        \* the presentation the Congruence was built from
    killed,      \* _killed, the shared cancellation signal
    rules,       \* the rules held by *_rws
    confluent,   \* _rws->is_confluent()
    sg,          \* _semigroup != nullptr
    gens,        \* the generators *_semigroup was built from
    elements,    \* the elements of *_semigroup, in order of discovery
    pos,         \* how many elements of *_semigroup are fully multiplied out
    batch_size,  \* the batch size of *_semigroup
    stack,       \* the Strategy thread: one label per active call, top first
    steps,       \* the argument of the active run(steps)
    limit,       \* the limit of the active enumerate
    batch_new,   \* elements found since the last batch boundary
    gens_alloc,  \* temporary generator elements allocated and not yet freed
    ret,         \* what the last call that finished returned
    fault,       \* the assertions that have failed
    hist         \* bookkeeping about the run so far, read by the properties only

vars == <<pres, killed, rules, confluent, sg, gens, elements, pos, batch_size,
          stack, steps, limit, batch_new, gens_alloc, ret, fault, hist>>

(***************************************************************************)
(* Bounds of the model.                                                    *)
(***************************************************************************)
\* the longest word handed to a query
MaxLen == 2
\* how many calls the scheduler makes on one instance
MaxCalls == 3
\* the largest finite step count handed to run(steps)
MaxSteps == 2

\* Congruence::LIMIT_MAX, larger than any size the model reaches
LIMIT_MAX == 2147483647

UNDEFINED == LIMIT_MAX

(***************************************************************************)
(* Words and the reduction order.                                          *)
(***************************************************************************)
Letters(n) == 0 .. (n - 1)

WordsOfLen(n, k) == [1 .. k -> Letters(n)]

WordsUpTo(n, k) == UNION {WordsOfLen(n, j) : j \in 0 .. k}

Range(s) == {s[i] : i \in DOMAIN s}

\* the one element of a singleton; the operators below take their arguments
\* through it, so that each argument is evaluated once
Only(S) == CHOOSE x \in S : TRUE

\* lexicographic comparison of two words of the same length
RECURSIVE LexLess(_, _)
LexLess(u, v) ==
    IF u = <<>> \/ v = <<>> THEN FALSE
    ELSE IF Head(u) # Head(v) THEN Head(u) < Head(v)
    ELSE LexLess(Tail(u), Tail(v))

\* the short-lex order used to orient rules
ShortLexLess(u, v) ==
    \/ Len(u) < Len(v)
    \/ Len(u) = Len(v) /\ LexLess(u, v)

\* a pair as a rule: larger side rewrites to smaller side; nothing for u = v
Oriented(pair) ==
    IF pair[1] = pair[2] THEN {}
    ELSE IF ShortLexLess(pair[2], pair[1]) THEN {<<pair[1], pair[2]>>}
    ELSE {<<pair[2], pair[1]>>}

add_rules(rs, pairs) == rs \cup UNION {Oriented(pairs[i]) : i \in DOMAIN pairs}

(***************************************************************************)
(* Rewriting.                                                              *)
(***************************************************************************)
MatchesAt(w, i, l) ==
    /\ i + Len(l) - 1 <= Len(w)
    /\ SubSeq(w, i, i + Len(l) - 1) = l

Redexes(rs, w) == {x \in (1 .. Len(w)) \X rs : MatchesAt(w, x[1], x[2][1])}

\* the redex applied next: leftmost, then the smallest replacement
RedexBefore(x, y) ==
    \/ x[1] < y[1]
    \/ x[1] = y[1] /\ ShortLexLess(x[2][1], y[2][1])
    \/ x[1] = y[1] /\ x[2][1] = y[2][1] /\ ShortLexLess(x[2][2], y[2][2])

FirstRedex(R) == CHOOSE x \in R : \A y \in R : y = x \/ RedexBefore(x, y)

Contract(w, x) ==
    SubSeq(w, 1, x[1] - 1) \o x[2][2] \o SubSeq(w, x[1] + Len(x[2][1]), Len(w))

RECURSIVE rewrite(_, _)
rewrite(rs0, w0) ==
    Only({IF R[3] = {} THEN R[2]
          ELSE rewrite(R[1], Contract(R[2], FirstRedex(R[3])))
             : R \in {<<rs, w, Redexes(rs, w)>> : rs \in {rs0}, w \in {w0}}})

(***************************************************************************)
(* Completion: critical pairs of the rules, and the rule one derivation    *)
(* adds.                                                                   *)
(***************************************************************************)
\* l1 = u.v and l2 = v.w with v of length k: the word u.v.w rewrites two ways
OverlapPairs(r1, r2) ==
    {<<r1[2] \o SubSeq(r2[1], k + 1, Len(r2[1])),
       SubSeq(r1[1], 1, Len(r1[1]) - k) \o r2[2]>> :
        k \in {j \in 1 .. Len(r1[1]) :
                 /\ j <= Len(r2[1])
                 /\ SubSeq(r1[1], Len(r1[1]) - j + 1, Len(r1[1])) = SubSeq(r2[1], 1, j)}}

\* l2 occurs inside l1 at position i: l1 rewrites two ways
InsidePairs(r1, r2) ==
    {<<r1[2], Contract(r1[1], <<i, r2>>)>> :
        i \in {j \in 1 .. Len(r1[1]) : MatchesAt(r1[1], j, r2[1])}}

CriticalPairs(rs) ==
    UNION {OverlapPairs(x[1], x[2]) \cup InsidePairs(x[1], x[2]) : x \in rs \X rs}

Unresolved(rs0) ==
    Only({{q \in {<<rewrite(rs, p[1]), rewrite(rs, p[2])>> : p \in CriticalPairs(rs)} :
             q[1] # q[2]} : rs \in {rs0}})

PairBefore(p, q) ==
    \/ ShortLexLess(p[1], q[1])
    \/ p[1] = q[1] /\ ShortLexLess(p[2], q[2])

\* the rule the next derivation adds
NextRule(rs) ==
    Only({Oriented(CHOOSE x \in U : \A y \in U : y = x \/ PairBefore(x, y)) :
             U \in {Unresolved(rs)}})

\* the rules completion ends with when it is never cancelled
RECURSIVE Completed(_)
Completed(rs0) ==
    Only({IF Unresolved(rs) = {} THEN rs ELSE Completed(rs \cup NextRule(rs)) :
             rs \in {rs0}})

(***************************************************************************)
(* Presentations: generator count, relations, extra pairs.  None is built  *)
(* from a concrete semigroup, so Congruence::init_relations has nothing to *)
(* materialise.  Generators are written 0 and 1.                           *)
(***************************************************************************)
\* 00 = 1 and extra 11 = 0: one derivation, quotient {0, 1, 01}
PresCyclic ==
    [nrgens |-> 2, relations |-> << <<<<0, 0>>, <<1>>>> >>,
     extra |-> << <<<<1, 1>>, <<0>>>> >>]

\* 01 = 0 and 10 = 1: two derivations, quotient {0, 1}
PresLeftZero ==
    [nrgens |-> 2, relations |-> << <<<<0, 1>>, <<0>>>>, <<<<1, 0>>, <<1>>>> >>,
     extra |-> << >>]

\* 00 = 0, 11 = 1 and extra 01 = 10: confluent as given, quotient {0, 1, 01}
PresBand ==
    [nrgens |-> 2, relations |-> << <<<<0, 0>>, <<0>>>>, <<<<1, 1>>, <<1>>>> >>,
     extra |-> << <<<<0, 1>>, <<1, 0>>>> >>]

\* 0000 = 0 on one generator: confluent as given, quotient {0, 00, 000}
PresMono ==
    [nrgens |-> 1, relations |-> << <<<<0, 0, 0, 0>>, <<0>>>> >>, extra |-> << >>]

Presentations == {PresCyclic, PresLeftZero, PresBand, PresMono}

\* the words a query may be handed: any word over the generators, the empty one too
Words == WordsUpTo(pres.nrgens, MaxLen)

\* the step counts a caller hands to run(steps)
StepCounts == (1 .. MaxSteps) \cup {LIMIT_MAX}

(***************************************************************************)
(* Semigroup (the EnumerationIndex).                                       *)
(***************************************************************************)
RECURSIVE Distinct(_)
Distinct(s0) ==
    Only({IF s = <<>> THEN <<>>
          ELSE Only({IF s[Len(s)] \in Range(d) THEN d ELSE Append(d, s[Len(s)]) :
                        d \in {Distinct(SubSeq(s, 1, Len(s) - 1))}}) : s \in {s0}})

\* new RWSE(*_rws, i) for every generator i
generators(rs, n) == [i \in 1 .. n |-> rewrite(rs, <<i - 1>>)]

\* new Semigroup(gens): the distinct generators are its first elements
new_semigroup(g) == Distinct(g)

\* the element at index p multiplied by the generators g[j], g[j+1], ...
RECURSIVE Multiply(_, _, _, _, _)
Multiply(rs, g, elts0, p, j) ==
    Only({IF j > Len(g) THEN elts
          ELSE Only({Multiply(rs, g, IF x \in Range(elts) THEN elts ELSE Append(elts, x),
                              p, j + 1) : x \in {rewrite(rs, elts[p + 1] \o g[j])}}) :
             elts \in {elts0}})

current_size == Len(elements)

\* Semigroup::is_done
closed == pos >= Len(elements)

\* Semigroup::position
position(x) ==
    IF x \in Range(elements) THEN (CHOOSE i \in DOMAIN elements : elements[i] = x) - 1
    ELSE UNDEFINED

(***************************************************************************)
(* The query functions of KBFP as values in the current state.             *)
(***************************************************************************)
is_done == sg /\ closed /\ ~killed

is_killed == killed

\* new RWSE(*_rws, word) reduces the word; position looks the element up
word_to_class_index_plain(word) == position(word)

word_to_class_index(word) == position(rewrite(rules, word))

\* what current_equals returns after init() has returned
current_equals_plain(w1, w2) ==
    IF rewrite(rules, w1) = rewrite(rules, w2) THEN "TRUE" ELSE "FALSE"

current_equals(w1, w2) ==
    IF is_killed THEN "UNKNOWN"
    ELSE IF rewrite(rules, w1) = rewrite(rules, w2) THEN "TRUE" ELSE "FALSE"

\* RWS::test_less_than: the reduction order on the rewritten words
test_less_than(w1, w2) == ShortLexLess(rewrite(rules, w1), rewrite(rules, w2))

current_less_than(w1, w2) == IF test_less_than(w1, w2) THEN "TRUE" ELSE "FALSE"

(***************************************************************************)
(* Bookkeeping.                                                            *)
(***************************************************************************)
\* what a caller can observe of the instance between two calls
Obs == <<rules, confluent, sg, gens, elements, pos>>

\* ret.val of a query on two words is the answer as a function of the two words
\* handed in: the call does nothing else with them
NoRet == [op |-> "none", arg |-> <<>>, val |-> "VOID", cancelled |-> FALSE]

WordPairs == Words \X Words

Returned(op) == [NoRet EXCEPT !.op = op]

Top == Head(stack)

Running(label) == stack # <<>> /\ Top = label

Goto(label) == stack' = <<label>> \o Tail(stack)

Call(label, back) == stack' = <<label, back>> \o Tail(stack)

\* assert(ok): when it fails, a build with assertions stops the process there
Asserted(ok, name) == fault' = IF ok THEN fault ELSE fault \cup {name}

Stops(ok) == ~ok /\ stack' = <<"abort">>

Init ==
    /\ pres \in Presentations
    /\ killed = FALSE
    /\ rules = {}
    /\ confluent = FALSE
    /\ sg = FALSE
    /\ gens = <<>>
    /\ elements = <<>>
    /\ pos = 0
    /\ batch_size = 0
    /\ stack = <<>>
    /\ steps = 0
    /\ limit = 0
    /\ batch_new = 0
    /\ gens_alloc = 0
    /\ ret = NoRet
    /\ fault = {}
    /\ hist = [calls |-> 0, feeds |-> 0, completions |-> 0, builds |-> 0,
               early_cancel |-> FALSE, cancelled_init |-> FALSE, grown |-> FALSE,
               prev_call |-> "none", obs0 |-> <<>>, size0 |-> 0, open0 |-> FALSE,
               only_run1 |-> TRUE, killed0 |-> FALSE]

(***************************************************************************)
(* The scheduler.                                                          *)
(***************************************************************************)
InCompletion == stack # <<>> /\ Top \in {"kb_poll", "kb_derive"}

\* DATA::kill(): the signal goes from unset to set and is never reset
kill ==
    /\ ~killed
    /\ killed' = TRUE
    /\ hist' = [hist EXCEPT !.early_cancel =
                   @ \/ hist.feeds = 0 \/ (InCompletion /\ ~confluent)]
    /\ UNCHANGED <<pres, rules, confluent, sg, gens, elements, pos, batch_size, stack,
                   steps, limit, batch_new, gens_alloc, ret, fault>>

Idle == stack = <<>> /\ hist.calls < MaxCalls

\* only_run1: every call so far was run(1); killed0: the signal at the call
Called ==
    [hist EXCEPT !.calls = @ + 1, !.prev_call = ret.op, !.obs0 = Obs,
                 !.only_run1 = FALSE, !.killed0 = killed]

Engine == <<rules, confluent, sg, gens, elements, pos, batch_size>>

call_init ==
    /\ Idle
    /\ stack' = <<"init">>
    /\ ret' = NoRet
    /\ hist' = Called
    /\ UNCHANGED <<pres, killed, Engine, steps, limit, batch_new, gens_alloc, fault>>

\* line 70: run(steps) is entered with a step count, in whatever state the
\* instance is
call_run_steps ==
    /\ Idle
    /\ \E n \in StepCounts :
          /\ steps' = n
          /\ hist' = [Called EXCEPT !.only_run1 = hist.only_run1 /\ n = 1]
    /\ stack' = <<"rs_entry">>
    /\ ret' = NoRet
    /\ UNCHANGED <<pres, killed, Engine, limit, batch_new, gens_alloc, fault>>

call_run ==
    /\ Idle
    /\ stack' = <<"run_loop">>
    /\ ret' = NoRet
    /\ hist' = Called
    /\ UNCHANGED <<pres, killed, Engine, steps, limit, batch_new, gens_alloc, fault>>

\* current_equals entering run(steps) where line 100 calls init()
call_current_equals_running ==
    /\ Idle
    /\ stack' = <<"rs_entry", "eq_check">>
    /\ ret' = NoRet
    /\ hist' = Called
    /\ UNCHANGED <<pres, killed, Engine, steps, limit, batch_new, gens_alloc, fault>>

call_current_equals ==
    /\ Idle
    /\ stack' = <<"init", "eq_check">>
    /\ ret' = NoRet
    /\ hist' = Called
    /\ UNCHANGED <<pres, killed, Engine, steps, limit, batch_new, gens_alloc, fault>>

call_current_less_than ==
    /\ Idle
    /\ stack' = <<"init", "lt_check">>
    /\ ret' = NoRet
    /\ hist' = Called
    /\ UNCHANGED <<pres, killed, Engine, steps, limit, batch_new, gens_alloc, fault>>

(***************************************************************************)
(* KBFP::init, kbfp.cc lines 44-68.                                        *)
(***************************************************************************)
\* what a return from the frame on top of the stack leaves in ret
ReturnAs(op) == IF Len(stack) = 1 THEN ret' = Returned(op) ELSE UNCHANGED ret

\* lines 48-55 without the guard of lines 45-47
init_guard_dropped ==
    /\ Running("init")
    /\ rules' = add_rules(add_rules(rules, pres.relations), pres.extra)
    /\ hist' = [hist EXCEPT !.feeds = @ + 1, !.completions = @ + 1]
    /\ Goto("kb_poll")
    /\ UNCHANGED <<pres, killed, confluent, sg, gens, elements, pos, batch_size, steps,
                   limit, batch_new, gens_alloc, ret, fault>>

\* lines 45-55: the guard, then the relations and the extra pairs go to *_rws
init_guard ==
    /\ Running("init")
    /\ IF sg
       THEN /\ stack' = Tail(stack)
            /\ ReturnAs("init")
            /\ UNCHANGED <<rules, hist>>
       ELSE /\ rules' = add_rules(add_rules(rules, pres.relations), pres.extra)
            /\ hist' = [hist EXCEPT !.feeds = @ + 1, !.completions = @ + 1]
            /\ Goto("kb_poll")
            /\ UNCHANGED ret
    /\ UNCHANGED <<pres, killed, confluent, sg, gens, elements, pos, batch_size, steps,
                   limit, batch_new, gens_alloc, fault>>

\* RWS::knuth_bendix polls the signal before every derivation
knuth_bendix_poll_flush ==
    /\ Running("kb_poll")
    /\ IF killed
       THEN /\ rules' = IF Unresolved(rules) = {} THEN rules ELSE rules \cup NextRule(rules)
            /\ Goto("init_check")
            /\ UNCHANGED confluent
       ELSE IF Unresolved(rules) = {}
       THEN /\ confluent' = TRUE
            /\ Goto("init_check")
            /\ UNCHANGED rules
       ELSE /\ Goto("kb_derive")
            /\ UNCHANGED <<confluent, rules>>
    /\ UNCHANGED <<pres, killed, sg, gens, elements, pos, batch_size, steps,
                   limit, batch_new, gens_alloc, ret, fault, hist>>

knuth_bendix_poll ==
    /\ Running("kb_poll")
    /\ IF killed
       THEN /\ Goto("init_check")
            /\ UNCHANGED confluent
       ELSE IF Unresolved(rules) = {}
       THEN /\ confluent' = TRUE
            /\ Goto("init_check")
       ELSE /\ Goto("kb_derive")
            /\ UNCHANGED confluent
    /\ UNCHANGED <<pres, killed, rules, sg, gens, elements, pos, batch_size, steps,
                   limit, batch_new, gens_alloc, ret, fault, hist>>

\* one rule derivation, which runs to its end whatever the signal
knuth_bendix_derive ==
    /\ Running("kb_derive")
    /\ rules' = rules \cup NextRule(rules)
    /\ Goto("kb_poll")
    /\ UNCHANGED <<pres, killed, confluent, sg, gens, elements, pos, batch_size, steps,
                   limit, batch_new, gens_alloc, ret, fault, hist>>

\* lines 56-65 without the test of _killed
init_killed_check_dropped ==
    /\ Running("init_check")
    /\ Asserted(confluent, "init_confluent")
    /\ \/ Stops(confluent) /\ UNCHANGED gens_alloc
       \/ gens_alloc' = pres.nrgens /\ Goto("init_build")
    /\ UNCHANGED <<pres, killed, Engine, steps, limit, batch_new, ret, hist>>

\* lines 56-65 with the test of _killed the wrong way round
init_killed_check_inverted ==
    /\ Running("init_check")
    /\ IF ~killed
       THEN /\ stack' = Tail(stack)
            /\ ReturnAs("init")
            /\ UNCHANGED <<gens_alloc, fault, hist>>
       ELSE /\ Asserted(confluent, "init_confluent")
            /\ \/ Stops(confluent) /\ UNCHANGED gens_alloc
               \/ gens_alloc' = pres.nrgens /\ Goto("init_build")
            /\ UNCHANGED <<ret, hist>>
    /\ UNCHANGED <<pres, killed, Engine, steps, limit, batch_new>>

\* lines 56-65: return if killed; else assert confluence and allocate the generators
init_killed_check ==
    /\ Running("init_check")
    /\ IF killed
       THEN /\ stack' = Tail(stack)
            /\ ReturnAs("init")
            /\ hist' = [hist EXCEPT !.cancelled_init = TRUE]
            /\ UNCHANGED <<gens_alloc, fault>>
       ELSE /\ Asserted(confluent, "init_confluent")
            /\ \/ Stops(confluent) /\ UNCHANGED gens_alloc
               \/ gens_alloc' = pres.nrgens /\ Goto("init_build")
            /\ UNCHANGED <<ret, hist>>
    /\ UNCHANGED <<pres, killed, Engine, steps, limit, batch_new>>

\* lines 63-67 with the loop one generator short
init_build_short ==
    /\ Running("init_build")
    /\ sg' = TRUE
    /\ gens' = new_semigroup(generators(rules, pres.nrgens - 1))
    /\ elements' = gens'
    /\ pos' = 0
    /\ gens_alloc' = 0
    /\ hist' = [hist EXCEPT !.builds = @ + 1]
    /\ stack' = Tail(stack)
    /\ ReturnAs("init")
    /\ UNCHANGED <<pres, killed, rules, confluent, batch_size, steps, limit,
                   batch_new, fault>>

\* lines 66-67 without really_delete_cont(gens)
init_build_leaky ==
    /\ Running("init_build")
    /\ sg' = TRUE
    /\ gens' = new_semigroup(generators(rules, pres.nrgens))
    /\ elements' = gens'
    /\ pos' = 0
    /\ hist' = [hist EXCEPT !.builds = @ + 1]
    /\ stack' = Tail(stack)
    /\ ReturnAs("init")
    /\ UNCHANGED <<pres, killed, rules, confluent, batch_size, steps, limit,
                   batch_new, gens_alloc, fault>>

\* lines 66-67: the Semigroup is built and the generators are freed
init_build ==
    /\ Running("init_build")
    /\ sg' = TRUE
    /\ gens' = new_semigroup(generators(rules, pres.nrgens))
    /\ elements' = gens'
    /\ pos' = 0
    /\ gens_alloc' = 0
    /\ hist' = [hist EXCEPT !.builds = @ + 1]
    /\ stack' = Tail(stack)
    /\ ReturnAs("init")
    /\ UNCHANGED <<pres, killed, rules, confluent, batch_size, steps, limit,
                   batch_new, fault>>

(***************************************************************************)
(* KBFP::run(size_t), kbfp.cc lines 70-84, and Semigroup::enumerate.       *)
(***************************************************************************)
\* whether an element of the quotient is still missing from *_semigroup
RECURSIVE Closure(_, _, _)
Closure(rs, n, S0) ==
    Only({Only({IF T = S THEN S ELSE Closure(rs, n, T) :
                   T \in {S \cup {rewrite(rs, x \o <<j>>) : x \in S, j \in Letters(n)}}}) :
             S \in {S0}})

\* the elements of the quotient: the closure of the generators under the
\* completed rules
\* what init() feeds to *_rws, per presentation
FedOf == [p \in Presentations |-> add_rules(add_rules({}, p.relations), p.extra)]

\* the elements of the quotient, per presentation: the closure of the generators
\* under the completed rules
QuotientOf ==
    [p \in Presentations |->
        Only({Closure(rs, p.nrgens, {rewrite(rs, <<j>>) : j \in Letters(p.nrgens)}) :
                 rs \in {Completed(FedOf[p])}})]

Quotient == QuotientOf[pres]

Undiscovered == Quotient \ (IF sg THEN Range(elements) ELSE {})

\* lines 71-73: the precondition, then init()
run_steps_entry ==
    /\ Running("rs_entry")
    /\ Asserted(~is_done, "run_not_done")
    /\ \/ Stops(~is_done) /\ UNCHANGED hist
       \/ /\ Call("init", "rs_check")
          /\ hist' = [hist EXCEPT !.size0 = IF sg THEN current_size ELSE 0,
                                  !.open0 = Undiscovered # {}]
    /\ UNCHANGED <<pres, killed, Engine, steps, limit, batch_new, gens_alloc, ret>>

\* lines 75-79 with the target current_size() instead of current_size() + 1
run_steps_check_no_progress ==
    /\ Running("rs_check")
    /\ IF ~killed
       THEN IF ~sg
            THEN /\ stack' = <<"abort">>
                 /\ fault' = fault \cup {"null_semigroup"}
                 /\ UNCHANGED <<batch_size, limit, hist>>
            ELSE /\ batch_size' = steps
                 /\ limit' = current_size
                 /\ hist' = [hist EXCEPT !.grown = TRUE]
                 /\ Goto("enum_entry")
                 /\ UNCHANGED fault
       ELSE /\ Goto("rs_return")
            /\ UNCHANGED <<batch_size, limit, hist, fault>>
    /\ UNCHANGED <<pres, killed, rules, confluent, sg, gens, elements, pos, steps,
                   batch_new, gens_alloc, ret>>

\* lines 75-79 without the test of _killed
run_steps_check_unguarded ==
    /\ Running("rs_check")
    /\ IF ~sg
       THEN /\ stack' = <<"abort">>
            /\ fault' = fault \cup {"null_semigroup"}
            /\ UNCHANGED <<batch_size, limit, hist>>
       ELSE /\ batch_size' = steps
            /\ limit' = current_size + 1
            /\ hist' = [hist EXCEPT !.grown = TRUE]
            /\ Goto("enum_entry")
            /\ UNCHANGED fault
    /\ UNCHANGED <<pres, killed, rules, confluent, sg, gens, elements, pos, steps,
                   batch_new, gens_alloc, ret>>

\* lines 75-79: unless killed, set the batch size and enumerate to current_size() + 1
run_steps_check ==
    /\ Running("rs_check")
    /\ IF ~killed
       THEN IF ~sg
            THEN /\ stack' = <<"abort">>
                 /\ fault' = fault \cup {"null_semigroup"}
                 /\ UNCHANGED <<batch_size, limit, hist>>
            ELSE /\ batch_size' = steps
                 /\ limit' = current_size + 1
                 /\ hist' = [hist EXCEPT !.grown = TRUE]
                 /\ Goto("enum_entry")
                 /\ UNCHANGED fault
       ELSE /\ Goto("rs_return")
            /\ UNCHANGED <<batch_size, limit, hist, fault>>
    /\ UNCHANGED <<pres, killed, rules, confluent, sg, gens, elements, pos, steps,
                   batch_new, gens_alloc, ret>>

\* Semigroup::enumerate on entry: nothing to do if closed, at the limit or killed
enumerate_entry ==
    /\ Running("enum_entry")
    /\ IF closed \/ limit <= current_size \/ killed
       THEN Goto("rs_return")
       ELSE Goto("enum_batch")
    /\ batch_new' = 0
    /\ UNCHANGED <<pres, killed, Engine, steps, limit, gens_alloc, ret, fault, hist>>

\* one element is multiplied by every generator; a batch ends once it has
\* found batch_size new elements, the enumeration once nothing is left
enumerate_multiply ==
    /\ Running("enum_batch")
    /\ elements' = Multiply(rules, gens, elements, pos, 1)
    /\ pos' = pos + 1
    /\ batch_new' = batch_new + (Len(elements') - Len(elements))
    /\ IF pos' >= Len(elements') THEN Goto("rs_return")
       ELSE IF batch_new' >= batch_size THEN Goto("enum_poll")
       ELSE UNCHANGED stack
    /\ UNCHANGED <<pres, killed, rules, confluent, sg, gens, batch_size, steps,
                   limit, gens_alloc, ret, fault, hist>>

\* a batch boundary: stop if killed or at the limit
enumerate_poll ==
    /\ Running("enum_poll")
    /\ IF killed \/ current_size >= limit
       THEN Goto("rs_return")
       ELSE Goto("enum_batch")
    /\ batch_new' = 0
    /\ UNCHANGED <<pres, killed, Engine, steps, limit, gens_alloc, ret, fault, hist>>

\* lines 81-84: report and return
run_steps_return ==
    /\ Running("rs_return")
    /\ stack' = Tail(stack)
    /\ ReturnAs("run_steps")
    /\ UNCHANGED <<pres, killed, Engine, steps, limit, batch_new, gens_alloc,
                   fault, hist>>

(***************************************************************************)
(* KBFP::run(), kbfp.cc lines 38-42.                                       *)
(***************************************************************************)
\* line 39 without the test of _killed
run_loop_killed_ignored ==
    /\ Running("run_loop")
    /\ Goto("run_loop_done")
    /\ UNCHANGED <<pres, killed, Engine, steps, limit, batch_new, gens_alloc,
                   ret, fault, hist>>

\* line 39, first operand: !_killed
run_loop_killed ==
    /\ Running("run_loop")
    /\ IF killed
       THEN /\ stack' = Tail(stack)
            /\ ret' = Returned("run")
       ELSE /\ Goto("run_loop_done")
            /\ UNCHANGED ret
    /\ UNCHANGED <<pres, killed, Engine, steps, limit, batch_new, gens_alloc,
                   fault, hist>>

\* lines 39-40 with the test of is_done() the wrong way round
run_loop_done_inverted ==
    /\ Running("run_loop_done")
    /\ IF ~is_done
       THEN /\ stack' = Tail(stack)
            /\ ret' = Returned("run")
            /\ UNCHANGED steps
       ELSE /\ Call("rs_entry", "run_loop")
            /\ steps' = LIMIT_MAX
            /\ UNCHANGED ret
    /\ UNCHANGED <<pres, killed, Engine, limit, batch_new, gens_alloc, fault, hist>>

\* lines 39-40, second operand: !is_done(), then run(LIMIT_MAX)
run_loop_done ==
    /\ Running("run_loop_done")
    /\ IF is_done
       THEN /\ stack' = Tail(stack)
            /\ ret' = Returned("run")
            /\ UNCHANGED steps
       ELSE /\ Call("rs_entry", "run_loop")
            /\ steps' = LIMIT_MAX
            /\ UNCHANGED ret
    /\ UNCHANGED <<pres, killed, Engine, limit, batch_new, gens_alloc, fault, hist>>

(***************************************************************************)
(* The queries, kbfp.cc lines 86-119.                                      *)
(***************************************************************************)
\* lines 101-108 without the test of is_killed()
current_equals_check_no_unknown ==
    /\ Running("eq_check")
    /\ Asserted(confluent, "equals_confluent")
    /\ \/ Stops(confluent) /\ UNCHANGED ret
       \/ /\ ret' = [op |-> "equals", arg |-> <<>>, cancelled |-> killed,
                    val |-> [q \in WordPairs |-> current_equals_plain(q[1], q[2])]]
          /\ stack' = Tail(stack)
    /\ UNCHANGED <<pres, killed, Engine, steps, limit, batch_new, gens_alloc, hist>>

\* lines 101-108, after init() has returned
current_equals_check ==
    /\ Running("eq_check")
    /\ Asserted(is_killed \/ confluent, "equals_confluent")
    /\ \/ Stops(is_killed \/ confluent) /\ UNCHANGED ret
       \/ /\ ret' = [op |-> "equals", arg |-> <<>>, cancelled |-> killed,
                    val |-> [q \in WordPairs |-> current_equals(q[1], q[2])]]
          /\ stack' = Tail(stack)
    /\ UNCHANGED <<pres, killed, Engine, steps, limit, batch_new, gens_alloc, hist>>

\* lines 114-118 with the test of is_killed() that current_equals makes
current_less_than_check_unknown ==
    /\ Running("lt_check")
    /\ Asserted(is_killed \/ confluent, "less_than_confluent")
    /\ \/ Stops(is_killed \/ confluent) /\ UNCHANGED ret
       \/ /\ ret' = [op |-> "less_than", arg |-> <<>>, cancelled |-> killed,
                    val |-> [q \in WordPairs |->
                                IF is_killed THEN "UNKNOWN"
                                ELSE current_less_than(q[1], q[2])]]
          /\ stack' = Tail(stack)
    /\ UNCHANGED <<pres, killed, Engine, steps, limit, batch_new, gens_alloc, hist>>

\* lines 114-118, after init() has returned
current_less_than_check ==
    /\ Running("lt_check")
    /\ Asserted(confluent, "less_than_confluent")
    /\ \/ Stops(confluent) /\ UNCHANGED ret
       \/ /\ ret' = [op |-> "less_than", arg |-> <<>>, cancelled |-> killed,
                    val |-> [q \in WordPairs |-> current_less_than(q[1], q[2])]]
          /\ stack' = Tail(stack)
    /\ UNCHANGED <<pres, killed, Engine, steps, limit, batch_new, gens_alloc, hist>>

\* lines 86-87: word_to_class_index is entered with a word, in whatever state
\* the instance is; ret.arg holds the word until the call returns
call_word_to_class_index ==
    /\ Idle
    /\ \E w \in Words : ret' = [NoRet EXCEPT !.arg = w]
    /\ stack' = <<"ci_entry">>
    /\ hist' = Called
    /\ UNCHANGED <<pres, killed, Engine, steps, limit, batch_new, gens_alloc, fault>>

\* lines 88-95: assert(is_done()), the position of the rewritten word in
\* *_semigroup (a null pointer if init() never built it), assert(pos != UNDEFINED)
word_to_class_index_body ==
    /\ Running("ci_entry")
    /\ LET done  == is_done
           index == IF sg THEN word_to_class_index(ret.arg) ELSE UNDEFINED
           found == sg /\ index # UNDEFINED
       IN  \/ /\ ~done
              /\ fault' = fault \cup {"class_index_not_done"}
              /\ stack' = <<"abort">>
              /\ UNCHANGED ret
           \/ /\ ~sg
              /\ fault' = fault \cup {"class_index_not_done", "class_index_null"}
              /\ stack' = <<"abort">>
              /\ UNCHANGED ret
           \/ /\ sg /\ ~found
              /\ fault' = fault \cup {"pos_undefined"}
                              \cup (IF done THEN {} ELSE {"class_index_not_done"})
              /\ stack' = <<"abort">>
              /\ UNCHANGED ret
           \/ /\ sg
              /\ fault' = fault \cup (IF done THEN {} ELSE {"class_index_not_done"})
                                \cup (IF found THEN {} ELSE {"pos_undefined"})
              /\ ret' = [op |-> "class_index", arg |-> ret.arg, cancelled |-> killed,
                         val |-> index]
              /\ stack' = Tail(stack)
    /\ UNCHANGED <<pres, killed, Engine, steps, limit, batch_new, gens_alloc, hist>>

(***************************************************************************)
(* The specification.                                                      *)
(***************************************************************************)
\* a step of the Strategy thread inside a call
StrategyStep ==
    \/ init_guard
    \/ knuth_bendix_poll
    \/ knuth_bendix_derive
    \/ init_killed_check
    \/ init_build
    \/ run_steps_entry
    \/ run_steps_check
    \/ enumerate_entry
    \/ enumerate_multiply
    \/ enumerate_poll
    \/ run_steps_return
    \/ run_loop_killed
    \/ run_loop_done
    \/ current_equals_check
    \/ current_less_than_check
    \/ word_to_class_index_body

\* a call made by the scheduler on the idle instance
SchedulerCall ==
    \/ call_init
    \/ call_run_steps
    \/ call_run
    \/ call_current_equals
    \/ call_current_less_than
    \/ call_word_to_class_index

Next == kill \/ SchedulerCall \/ StrategyStep

Spec == Init /\ [][Next]_vars

\* a call, once made, runs on the caller's thread until it returns
FairSpec == Spec /\ WF_vars(StrategyStep)

(***************************************************************************)
(* Properties.                                                             *)
(***************************************************************************)
Fed == FedOf[pres]

\* C1 as stated: equals returns UNKNOWN only if completion never reached
\* confluence, and otherwise TRUE or FALSE by the rewritten words, also when the
\* signal was set after confluence.
C1_UnknownOnlyBeforeConfluence ==
    ret.op = "equals" =>
        \A q \in WordPairs :
            ret.val[q] = IF ~confluent THEN "UNKNOWN" ELSE current_equals_plain(q[1], q[2])

\* C1 amended: equals returns UNKNOWN exactly when the signal is set when equals
\* tests it, whether or not confluence had been reached; when the signal is not
\* set the rules are confluent and the answer is TRUE or FALSE by the rewritten
\* words.
C1_UnknownIffKilled ==
    ret.op = "equals" =>
        \A q \in WordPairs :
            /\ ret.val[q] = "UNKNOWN" <=> ret.cancelled
            /\ ~ret.cancelled =>
                  /\ confluent
                  /\ ret.val[q] = current_equals_plain(q[1], q[2])

\* equals answered UNKNOWN on an instance whose completion and index were finished
C1_Witness ==
    /\ ret.op = "equals" /\ confluent /\ sg
    /\ \A q \in WordPairs : ret.val[q] = "UNKNOWN"

\* C2: when is_done() holds and equals has returned, two words have the same class index
\* exactly when equals said TRUE of them.
C2_Consistency ==
    (is_done /\ ret.op = "equals") =>
        LET class_index == [w \in Words |-> word_to_class_index(w)]
        IN  \A q \in WordPairs :
                (class_index[q[1]] = class_index[q[2]]) <=> (ret.val[q] = "TRUE")

\* a done instance with two different words in one class
C2_Witness ==
    /\ is_done
    /\ ret.op = "equals"
    /\ \E q \in WordPairs :
          /\ q[1] # q[2]
          /\ ret.val[q] = "TRUE"
          /\ word_to_class_index(q[1]) = word_to_class_index(q[2])
          /\ word_to_class_index(q[1]) # UNDEFINED
    /\ \E q \in WordPairs :
          /\ ret.val[q] = "FALSE"
          /\ word_to_class_index(q[1]) # word_to_class_index(q[2])

\* C3: an init() that directly follows an init() leaves the rules, the
\* confluence flag and the Semigroup as the first call left them.
C3_InitIdempotent ==
    (stack = <<>> /\ ret.op = "init" /\ hist.prev_call = "init") => Obs = hist.obs0

\* a second init() has returned after a first that was cancelled in mid-completion
C3_Witness ==
    /\ stack = <<>> /\ ret.op = "init" /\ hist.prev_call = "init"
    /\ hist.cancelled_init /\ hist.feeds = 2
    /\ rules # Fed /\ Unresolved(rules) # {}

\* C4 as stated: the rules are fed and completion is started at most once, and
\* the Semigroup is built at most once.
C4_AtMostOnce == hist.feeds <= 1 /\ hist.completions <= 1 /\ hist.builds <= 1

\* C5: once the signal is set before the first init() or in mid-completion,
\* is_done() is false, no Semigroup is ever built and equals returns UNKNOWN.
C5_EarlyCancel ==
    hist.early_cancel =>
        /\ ~is_done
        /\ ~sg
        /\ "equals_confluent" \notin fault
        /\ ret.op = "equals" => \A q \in WordPairs : ret.val[q] = "UNKNOWN"
        /\ \A w1 \in Words, w2 \in Words : current_equals(w1, w2) = "UNKNOWN"

\* equals has returned on an instance cancelled in mid-completion
C5_Witness ==
    /\ hist.early_cancel /\ ret.op = "equals"
    /\ rules # Fed /\ Unresolved(rules) # {}

\* C6: a run(steps) that was not cancelled leaves at least one element more than
\* it found, unless no element of the quotient was missing when it was called.
C6_Progress ==
    (Running("rs_return") /\ ~killed /\ hist.open0) => current_size >= hist.size0 + 1

\* a run(steps) on an existing Semigroup that lacked an element is about to return
C6_Witness ==
    /\ Running("rs_return") /\ ~killed /\ hist.open0
    /\ hist.size0 >= 1 /\ hist.builds = 1 /\ hist.calls = 2

\* the Semigroup holds every element of the quotient and has multiplied all out
FullyClosed == sg /\ closed /\ Range(elements) = Quotient

\* C7: is_done() is true exactly when the Semigroup has closed the full quotient
\* and the signal is not set; a Semigroup that reports itself closed holds the
\* whole quotient.
C7_IsDone ==
    /\ is_done <=> (FullyClosed /\ ~killed)
    /\ (sg /\ closed) => FullyClosed
    /\ killed => ~is_done

\* the signal was set after the enumeration had closed
C7_Witness == FullyClosed /\ killed /\ ~is_done /\ Cardinality(Quotient) = 3

\* C8 as stated: once is_done(), class_index never yields UNDEFINED, for every
\* word, the empty word included: the assertion of line 94 fails only in a call
\* that had already failed the assertion of line 88.
C8_NeverUndefined ==
    /\ "pos_undefined" \in fault => "class_index_not_done" \in fault
    /\ is_done => \A w \in Words : word_to_class_index(w) # UNDEFINED

\* the phase of the lifecycle the instance is in, read off its state. Without a
\* Semigroup: COMPLETING while init() is between the feed of line 50 and its
\* return, CANCELLED once init() has returned on the signal (lines 56-59). With
\* a Semigroup: CANCELLED as soon as the signal is set, DONE exactly when
\* is_done(), GROWING once run(steps) has handed the Semigroup to enumerate.
Phase ==
    IF sg
    THEN (IF killed THEN "CANCELLED"
          ELSE IF closed THEN "DONE"
          ELSE IF hist.grown THEN "GROWING"
          ELSE "READY")
    ELSE IF stack # <<>> /\ Top \in {"kb_poll", "kb_derive", "init_check", "init_build"}
    THEN "COMPLETING"
    ELSE IF hist.cancelled_init THEN "CANCELLED"
    ELSE IF hist.feeds = 0 THEN "UNINITIALIZED"
    ELSE "COMPLETING"

\* the transitions the state machine lists
Transitions ==
    {<<"UNINITIALIZED", "COMPLETING">>, <<"COMPLETING", "CANCELLED">>,
     <<"COMPLETING", "READY">>, <<"READY", "GROWING">>, <<"GROWING", "DONE">>,
     <<"GROWING", "CANCELLED">>}

\* C9 as stated: the phase changes only along the listed transitions; an
\* instance cancelled during completion never gets a Semigroup, and a Semigroup
\* exists only after a completion that ended confluent.
C9_ListedTransitionsOnly ==
    /\ [][Phase' = Phase \/ <<Phase, Phase'>> \in Transitions]_vars
    /\ [](hist.cancelled_init => ~sg)
    /\ [](sg => confluent /\ Unresolved(rules) = {})

\* C9, amended: the phase changes only along the listed transitions, from READY
\* or DONE to CANCELLED when the signal is set there, and from CANCELLED back to
\* COMPLETING when a call re-enters completion on an instance that has no
\* Semigroup; such a completion ends CANCELLED again. An instance cancelled
\* during completion is never READY, GROWING or DONE afterwards, and a
\* Semigroup exists only after a completion that ended confluent.
C9_Lifecycle ==
    /\ [][\/ Phase' = Phase
          \/ <<Phase, Phase'>> \in Transitions
          \/ <<Phase, Phase'>> \in {<<"READY", "CANCELLED">>, <<"DONE", "CANCELLED">>}
          \/ /\ <<Phase, Phase'>> = <<"CANCELLED", "COMPLETING">>
             /\ ~sg /\ killed /\ Running("init")]_vars
    /\ [][(hist.cancelled_init /\ Phase = "COMPLETING") =>
             Phase' \in {"COMPLETING", "CANCELLED"}]_vars
    /\ [](hist.cancelled_init => Phase \in {"COMPLETING", "CANCELLED"})
    /\ [](hist.cancelled_init => ~sg)
    /\ [](sg => confluent /\ Unresolved(rules) = {})
    /\ [](Phase = "DONE" <=> is_done)

\* an instance cancelled during completion has been called again, has run
\* completion again and is back in CANCELLED without a Semigroup
C9_Witness ==
    /\ Phase = "CANCELLED" /\ ~sg /\ hist.cancelled_init
    /\ hist.feeds = 2 /\ hist.completions = 2 /\ stack = <<>>

RunActive == "run_loop" \in Range(stack) \/ "run_loop_done" \in Range(stack)

RunReturned == stack = <<>> /\ ret.op = "run"

\* C10: when run() returns, is_done() is true or the signal is set; and a run()
\* on which the signal is never set returns with is_done() true.
C10_RunToCompletion ==
    /\ [](RunReturned => (killed \/ is_done))
    /\ RunActive ~> ((RunReturned /\ is_done) \/ killed)

\* run() has returned from a fresh instance that it completed and enumerated
C10_Witness == RunReturned /\ is_done /\ hist.calls = 1 /\ ~killed

\* the call in progress is init(), run(steps) or run()
InitOrRunActive ==
    stack # <<>> /\ stack[Len(stack)] \notin {"eq_check", "lt_check", "ci_entry", "abort"}

\* once the signal is set, every checkpoint that is reached starts no further
\* derivation and no further batch, and leaves the rules and the index alone
StopsAtCheckpoints ==
    /\ [][(killed /\ Running("kb_poll")) =>
             (Running("init_check")' /\ rules' = rules)]_vars
    /\ [][(killed /\ Running("init_check")) =>
             (Len(stack') < Len(stack) /\ ~sg')]_vars
    /\ [][(killed /\ Running("rs_check")) => Running("rs_return")']_vars
    /\ [][(killed /\ (Running("enum_entry") \/ Running("enum_poll"))) =>
             (Running("rs_return")' /\ elements' = elements /\ pos' = pos)]_vars

\* C11 as stated: besides the checkpoints, run() enters no run(steps) once the
\* signal is set, and the call in progress returns.
C11_NoNewIteration ==
    /\ StopsAtCheckpoints
    /\ [][(killed /\ (Running("run_loop") \/ Running("run_loop_done"))) =>
             ~Running("rs_entry")']_vars
    /\ (killed /\ InitOrRunActive) ~> (stack = <<>>)

\* C11 amended: once the signal is set, every checkpoint reached stops the work,
\* run() returns at its next test of _killed, and the call in progress returns;
\* a run(steps) entered between the two tests of the loop is not excluded.
C11_BoundedResponse ==
    /\ StopsAtCheckpoints
    /\ [][(killed /\ Running("run_loop")) => Len(stack') < Len(stack)]_vars
    /\ (killed /\ InitOrRunActive) ~> (stack = <<>>)

\* run() on a fresh instance has returned on a signal set during the enumeration
C11_Witness ==
    /\ stack = <<>> /\ ret.op = "run" /\ hist.calls = 1
    /\ killed /\ sg /\ ~closed

\* a fresh instance on a three-element quotient that has only been called as
\* run(1), the signal never set
ScenarioB == hist.only_run1 /\ ~killed /\ Cardinality(Quotient) = 3

\* C12 as stated: is_done() after at most three run(1), each of which adds
\* exactly one element.
C12_ExactlyOne ==
    ScenarioB =>
        /\ (stack = <<>> /\ ~is_done) => hist.calls < 3
        /\ (stack = <<>> /\ hist.calls >= 1) => current_size = hist.size0 + 1

\* C12 amended: is_done() after at most three run(1); a run(1) that starts with
\* an element of the quotient undiscovered adds at least one, and a run(1) that
\* starts with all of them discovered adds none and closes the index.
C12_ScenarioB ==
    ScenarioB =>
        /\ (stack = <<>> /\ ~is_done) => hist.calls < 3
        /\ (stack = <<>> /\ hist.calls >= 1) =>
              IF hist.open0 THEN current_size >= hist.size0 + 1
              ELSE current_size = hist.size0 /\ is_done

\* the third run(1) has closed the index without adding an element
C12_Witness ==
    /\ ScenarioB /\ stack = <<>> /\ hist.calls = 3 /\ is_done
    /\ current_size = hist.size0 /\ current_size = 3

\* C13: a less_than that has returned answered TRUE or FALSE for every pair of
\* words, by the RewritingEngine's order on the rewritten words, never UNKNOWN;
\* a less_than on rules that are not confluent has failed the confluence
\* assertion, and that assertion fails only when completion was cancelled
\* before confluence.
C13_LessThanNeverUnknown ==
    /\ ret.op = "less_than" =>
          LET nf == [w \in Words |-> rewrite(rules, w)]
          IN  /\ \A q \in WordPairs :
                    ret.val[q] = IF ShortLexLess(nf[q[1]], nf[q[2]]) THEN "TRUE" ELSE "FALSE"
              /\ ~confluent => "less_than_confluent" \in fault
    /\ "less_than_confluent" \in fault => (killed /\ ~confluent /\ ~sg)

\* less_than has answered on an instance cancelled after its completion
C13_Witness ==
    /\ ret.op = "less_than" /\ ret.cancelled /\ confluent /\ fault = {}
    /\ \E q \in WordPairs : ret.val[q] = "TRUE"
    /\ \E q \in WordPairs : ret.val[q] = "FALSE"

\* C14: no step makes current_size() smaller, removes the Semigroup, or changes
\* the index of an element that has one.
C14_Monotonic ==
    [][/\ (IF sg' THEN Len(elements') ELSE 0) >= (IF sg THEN current_size ELSE 0)
       /\ sg => /\ sg'
                /\ \A i \in DOMAIN elements :
                      i \in DOMAIN elements' /\ elements'[i] = elements[i]]_vars

\* the index has grown past its generators, the signal was set, and at least one
\* more call has returned
C14_Witness ==
    /\ stack = <<>> /\ sg /\ killed
    /\ current_size > Len(gens) /\ hist.calls >= 3

\* C15: outside lines 62-67 of init(), and so at every return from init(), no
\* temporary generator element is allocated and not yet freed.
C15_NoLeak ==
    /\ ~Running("init_build") => gens_alloc = 0
    /\ Running("init_build") => gens_alloc = pres.nrgens

\* init() has returned on the success path, where the generators were allocated
C15_Witness ==
    /\ stack = <<>> /\ ret.op = "init" /\ sg /\ hist.builds = 1
    /\ gens_alloc = 0 /\ Len(gens) = pres.nrgens

\* a run(steps) frame is on the stack
InRunSteps ==
    /\ stack # <<>>
    /\ \/ Top \in {"rs_entry", "rs_return", "enum_entry", "enum_batch", "enum_poll"}
       \/ "rs_check" \in Range(stack)

\* C16: no step of a run(steps) that was called on a ready instance with the
\* signal already set changes the batch size or the elements of the Semigroup,
\* and none enters enumerate.
C16_KilledRunLeavesIndex ==
    [][(hist.killed0 /\ sg /\ InRunSteps) =>
          /\ batch_size' = batch_size
          /\ elements' = elements /\ pos' = pos /\ limit' = limit
          /\ ~(Running("enum_entry") \/ Running("enum_batch") \/ Running("enum_poll"))']_vars

\* run(steps) has returned from a ready, unfinished instance whose signal was set
\* before the call
C16_Witness ==
    /\ stack = <<>> /\ ret.op = "run_steps" /\ hist.killed0
    /\ sg /\ ~closed /\ hist.obs0[3]

\* the call in progress is current_equals or current_less_than
InQuery == stack # <<>> /\ stack[Len(stack)] \in {"eq_check", "lt_check"}

\* what equals answers by the presentation alone: the normal forms under the
\* completed rules, whatever the state of the enumeration
EqualsOf ==
    [p \in Presentations |->
        LET rs == Completed(FedOf[p])
            nf == [w \in WordsUpTo(p.nrgens, MaxLen) |-> rewrite(rs, w)]
        IN  [q \in WordsUpTo(p.nrgens, MaxLen) \X WordsUpTo(p.nrgens, MaxLen) |->
                IF nf[q[1]] = nf[q[2]] THEN "TRUE" ELSE "FALSE"]]

\* C17: no step of equals or less_than enumerates: an existing Semigroup keeps
\* its elements, position and batch size, a Semigroup built by the init() inside
\* the call holds its generators only, and is_done() is not changed by the call;
\* and what equals answers on an uncancelled instance is fixed by the
\* presentation, before and after any run(steps).
C17_QueriesDoNotEnumerate ==
    /\ [][(InQuery /\ killed' = killed) =>
             /\ is_done' = is_done
             /\ IF sg THEN elements' = elements /\ pos' = pos /\ batch_size' = batch_size
                ELSE sg' => (elements' = gens' /\ pos' = 0)
             /\ ~(Running("enum_entry") \/ Running("enum_batch") \/ Running("enum_poll"))']_vars
    /\ []((ret.op = "equals" /\ ~ret.cancelled) => ret.val = EqualsOf[pres])

\* equals has answered on an uncancelled instance whose enumeration had grown
C17_Witness ==
    /\ ret.op = "equals" /\ ~ret.cancelled /\ stack = <<>>
    /\ hist.grown /\ current_size > Len(gens)
    /\ \E q \in WordPairs : q[1] # q[2] /\ ret.val[q] = "TRUE"

\* C18: run(steps) never reaches set_batch_size or enumerate without a
\* Semigroup: the null pointer is never used, and enumerate only ever runs on
\* a Semigroup that init() has built.
C18_NoNullSemigroup ==
    /\ "null_semigroup" \notin fault
    /\ Running("rs_check") => (sg \/ killed)
    /\ (Running("enum_entry") \/ Running("enum_batch") \/ Running("enum_poll")) =>
          (sg /\ hist.builds = 1)

\* run(steps) has returned from an instance whose init() was cancelled by a
\* signal set during that very call
C18_Witness ==
    /\ stack = <<>> /\ ret.op = "run_steps" /\ fault = {}
    /\ ~sg /\ killed /\ ~hist.killed0 /\ hist.calls = 1

\* C19: the confluence assertions of init() (line 61) and of current_equals
\* (line 104) never fail; each is reached only with confluent rules.
C19_ConfluenceAsserts ==
    /\ "init_confluent" \notin fault
    /\ "equals_confluent" \notin fault
    /\ Running("init_build") => confluent
    /\ (ret.op = "equals" /\ ~ret.cancelled) => confluent

\* equals has returned from an instance whose completion was cut short by a
\* signal set during that very call
C19_Witness ==
    /\ stack = <<>> /\ ret.op = "equals" /\ ret.cancelled /\ fault = {}
    /\ ~confluent /\ ~hist.killed0 /\ rules # Fed /\ hist.calls = 1

\* C20: a run(steps) entered from the loop of run() starts with is_done() false,
\* and its assert(!is_done()) neither fails nor stops the process.
C20_RunKeepsPrecondition ==
    /\ []((Running("rs_entry") /\ "run_loop" \in Range(stack)) => ~is_done)
    /\ [][(Running("rs_entry") /\ "run_loop" \in Range(stack)) =>
             (fault' = fault /\ stack' # <<"abort">>)]_vars

\* a run() called on the done instance that an earlier run() left has returned
C20_Witness ==
    /\ stack = <<>> /\ ret.op = "run" /\ hist.prev_call = "run"
    /\ hist.calls = 2 /\ is_done /\ fault = {}

====
